---- MODULE Spec2Model ----
(***************************************************************************)
(* Model of pandas_ta.trend.psar (Parabolic Stop and Reverse) and of the   *)
(* offset handling of pandas_ta.momentum.brar.                             *)
(*                                                                         *)
(* Numbers.  Prices are small integers.  Every price-valued quantity of    *)
(* the run (sar, ep, long, short) is held multiplied by Scale, and every   *)
(* acceleration factor is held in units of 1/AfDen (0.02 = 1/50), so that  *)
(* sar + af * (ep - sar) is computed exactly: after k steps sar is a       *)
(* multiple of Scale / AfDen^k.  Floating point rounding is not modelled.  *)
(* A missing value (None for a parameter, NaN in an output column) is the  *)
(* empty sequence <<>>, a present value v is <<v>>.                        *)
(* Series positions are 0-based as in the source: At(s, i) is s.iat[i].    *)
(***************************************************************************)
EXTENDS Integers, Sequences, FiniteSets, TLC

VARIABLES
    high, low, close,          \* the input series (close: None or a series)
    p_af0, p_af, p_max_af, tv, \* the arguments af0, af, max_af, tv as passed
    pc,                        \* position in psar: start, seed, loop, done
    outcome,                   \* how the call ended, "" while it runs
    paf, af0, af, max_af,      \* locals of lines 54-58
    falling, sar, ep,          \* the recurrence state
    row,                       \* the loop variable of line 82
    long, short, af_series, reversal,   \* the four output columns
    hist,                      \* history: per position, what the step computed
    brar                       \* the state of a call of brar (a record)

vars == <<high, low, close, p_af0, p_af, p_max_af, tv, pc, outcome, paf, af0,
          af, max_af, falling, sar, ep, row, long, short, af_series, reversal,
          hist, brar>>

(* ------------------------------ bounds --------------------------------- *)
MaxLen == 4          \* longest input series
ShapeMax == 2        \* prices of the shape and parameter runs are 1..ShapeMax
ParamLen == 3        \* longest input of the parameter runs
WideGap == 150       \* the high prices of the rising runs lie WideGap above the low ones
BrarLen == 3         \* longest input of the brar runs

(* --------------------------- number scale ------------------------------ *)
AfDen == 50          \* acceleration factors are counted in units of 1/50 = 0.02
DefaultAf == 1       \* 0.02, the default of af
DefaultMaxAf == 10   \* 0.2, the default of max_af

RECURSIVE Pow(_, _)
Pow(b, e) == IF e = 0 THEN 1 ELSE b * Pow(b, e - 1)

Scale == Pow(AfDen, MaxLen - 2)  \* one factor AfDen for each step of the loop
Px(p) == p * Scale

None == <<>>
Some(v) == <<v>>
IsNone(o) == o = <<>>
Val(o) == o[1]

At(s, i) == s[i + 1]
Put(s, i, v) == [s EXCEPT ![i + 1] = v]

Min2(a, b) == IF a <= b THEN a ELSE b
Max2(a, b) == IF a >= b THEN a ELSE b
Min3(a, b, c) == Min2(a, Min2(b, c))
Max3(a, b, c) == Max2(a, Max2(b, c))

(* ------------------------- validation helpers -------------------------- *)
\* v_series(series, length): the series when it has at least `length`
\* points, else None.
v_series(series, length) == IF Len(series) >= length THEN Some(series) ELSE None

\* v_pos_default(var, default): the default when var is not supplied, var
\* when it is positive; a supplied value that is not positive is an
\* InvalidParameter failure, reported here as None.
v_pos_default(var, default) ==
    IF IsNone(var) THEN Some(default)
    ELSE IF Val(var) > 0 THEN Some(Val(var))
    ELSE None

\* zero(x): 0 when |x| is below the float epsilon, else x.  On the integer
\* grid of the model every nonzero value has |x| >= 1.
zero(x) == x

(* --------------------------- the recurrence ---------------------------- *)
\* mutant: the candidate moves away from the extreme point
Candidate_away(sar0, af_, ep0) == sar0 - ((ep0 - sar0) \div AfDen) * af_

\* line 86: _sar = sar + af * (ep - sar), exact on the scaled grid
Candidate(sar0, af_, ep0) == sar0 + ((ep0 - sar0) \div AfDen) * af_

\* mutant: the two tests exchanged between the directions
ReverseCond_swapped(falling0, high_, low_, sar_) ==
    IF falling0 THEN low_ < sar_ ELSE high_ > sar_

\* mutant: touching the candidate already reverses
ReverseCond_lax(falling0, high_, low_, sar_) ==
    IF falling0 THEN high_ >= sar_ ELSE low_ <= sar_

\* lines 89 and 97: the reversal test against the candidate before clamping
ReverseCond(falling0, high_, low_, sar_) ==
    IF falling0 THEN high_ > sar_ ELSE low_ < sar_

\* lines 91 and 99: does the current bar set a new extreme point
NewExtreme(falling0, high_, low_, ep0) ==
    IF falling0 THEN low_ < ep0 ELSE high_ > ep0

\* lines 92 and 100
ExtremeOf(falling0, high_, low_) == IF falling0 THEN low_ ELSE high_

\* lines 93 and 101: af = min(af + paf, max_af)
BumpAf(af_, paf_, max_af_) == Min2(af_ + paf_, max_af_)

\* lines 95 and 103: the clamp against the two prior bars
Clamp(falling0, i, sar_) ==
    IF falling0
    THEN Max3(Px(At(high, i - 1)), Px(At(high, i - 2)), sar_)
    ELSE Min3(Px(At(low, i - 1)), Px(At(low, i - 2)), sar_)

\* mutant: the tv stop taken on the side of the old direction
ReversalSar_same_side(tv_, falling0, i, ep0) ==
    IF tv_
    THEN IF falling0
         THEN Max3(Px(At(high, i - 1)), Px(At(high, i - 2)), ep0)
         ELSE Min3(Px(At(low, i - 1)), Px(At(low, i - 2)), ep0)
    ELSE ep0

\* lines 106-112: the stop committed on a reversal; falling0 is the
\* direction before the flip, ep0 the extreme point after this step's update
ReversalSar(tv_, falling0, i, ep0) ==
    IF tv_
    THEN IF falling0
         THEN Min3(Px(At(low, i - 1)), Px(At(low, i - 2)), ep0)
         ELSE Max3(Px(At(high, i - 1)), Px(At(high, i - 2)), ep0)
    ELSE ep0

\* line 114: af = af0
ResetAf(af0_) == af0_

\* mutant: the direction is kept on a reversal
Flip_kept(falling0) == falling0

\* line 115: falling = not falling
Flip(falling0) == ~falling0

\* line 116: ep = low_ if falling else high_, falling1 the direction after the flip
Reseed(falling1, high_, low_) == IF falling1 THEN low_ ELSE high_

\* mutant: long is written in either direction
LongAfter_always(falling1, i, sar1) == Put(long, i, Some(sar1))

\* lines 121-124: the column the committed sar is written to
LongAfter(falling1, i, sar1) == IF falling1 THEN long ELSE Put(long, i, Some(sar1))
ShortAfter(falling1, i, sar1) == IF falling1 THEN Put(short, i, Some(sar1)) ELSE short

\* mutant: equal deltas already count as falling
FallingSeed_ge(h, l) ==
    IF Len(h) < 2 THEN FALSE
    ELSE (l[1] - l[2]) >= (h[2] - h[1]) /\ (l[1] - l[2]) > 0

\* lines 162-168: _falling on the first two bars (h and l are high.iloc[:2]
\* and low.iloc[:2]); with a single bar the shifted differences are NaN and
\* the result is False
FallingSeed(h, l) ==
    IF Len(h) < 2 THEN FALSE
    ELSE LET up == h[2] - h[1]
             dn == l[1] - l[2]
             dmn == zero(IF dn > up /\ dn > 0 THEN dn ELSE 0)
         IN  dmn > 0

Head2(s) == SubSeq(s, 1, Min2(2, Len(s)))

\* line 54: paf = v_pos_default(af, 0.02)
ParamPaf(p_af_) == v_pos_default(p_af_, DefaultAf)

\* mutant: af0 defaults to 0.02 whatever the step
ParamAf0_fixed(p_af0_, paf_) == v_pos_default(p_af0_, DefaultAf)

\* line 55: af0 = v_pos_default(af0, paf)
ParamAf0(p_af0_, paf_) == v_pos_default(p_af0_, paf_)

\* line 58: max_af = v_pos_default(max_af, 0.2)
ParamMaxAf(p_max_af_) == v_pos_default(p_max_af_, DefaultMaxAf)

(* ------------------------------ actions -------------------------------- *)
\* no call of brar is under way
BrarIdle == [pc |-> "idle"]

Start(h, l, c, a0, a, m, t) ==
    /\ brar = BrarIdle
    /\ high = h /\ low = l /\ close = c
    /\ p_af0 = a0 /\ p_af = a /\ p_max_af = m /\ tv = t
    /\ pc = "start" /\ outcome = ""
    /\ paf = 0 /\ af0 = 0 /\ af = 0 /\ max_af = 0
    /\ falling = FALSE /\ sar = 0 /\ ep = 0 /\ row = 0
    /\ long = <<>> /\ short = <<>> /\ af_series = <<>> /\ reversal = <<>>
    /\ hist = <<>>

Fail(what) ==
    /\ pc' = "done"
    /\ outcome' = what

\* lines 46-59: validation of the series and of the parameters
Validate ==
    /\ pc = "start"
    /\ LET paf1 == ParamPaf(p_af)
           af01 == IF IsNone(paf1) THEN None ELSE ParamAf0(p_af0, Val(paf1))
           max1 == ParamMaxAf(p_max_af)
       IN  IF IsNone(v_series(high, 1)) \/ IsNone(v_series(low, 1))
           THEN /\ Fail("None")
                /\ UNCHANGED <<paf, af0, af, max_af>>
           ELSE IF IsNone(paf1) \/ IsNone(af01) \/ IsNone(max1)
           THEN /\ Fail("InvalidParameter")
                /\ UNCHANGED <<paf, af0, af, max_af>>
           ELSE /\ pc' = "seed"
                /\ paf' = Val(paf1) /\ af0' = Val(af01) /\ af' = Val(af01)
                /\ max_af' = Val(max1)
                /\ UNCHANGED outcome
    /\ UNCHANGED <<high, low, close, p_af0, p_af, p_max_af, tv, falling, sar,
                   ep, row, long, short, af_series, reversal, hist, brar>>

\* lines 61-78: initial direction, seed state and the output columns
Seed ==
    /\ pc = "seed"
    /\ IF Len(Head2(high)) # Len(Head2(low))
       THEN \* dn > up compares series of different length: pandas raises
            /\ Fail("ValueError")
            /\ UNCHANGED <<falling, sar, ep, row, long, short, af_series,
                           reversal, hist>>
       ELSE LET f == FallingSeed(Head2(high), Head2(low))
                sar0 == IF ~IsNone(close) THEN Px(At(Val(close), 0))
                        ELSE IF f THEN Px(At(high, 0)) ELSE Px(At(low, 0))
                ep0 == IF f THEN Px(At(low, 0)) ELSE Px(At(high, 0))
                n == Len(high)
                seedrec == [cand |-> sar0, ep_upd |-> ep0, ep |-> ep0,
                            falling |-> f, sar |-> sar0, reverse |-> FALSE]
            IN  /\ falling' = f /\ sar' = sar0 /\ ep' = ep0
                /\ long' = [i \in 1..n |-> None]
                /\ short' = [i \in 1..n |-> None]
                /\ reversal' = [i \in 1..n |-> 0]
                /\ af_series' = [i \in 1..n |-> IF i <= 2 THEN af0 ELSE 0]
                /\ hist' = [i \in 1..Min2(2, n) |-> seedrec]
                /\ row' = 2
                /\ pc' = "loop"
                /\ UNCHANGED outcome
    /\ UNCHANGED <<high, low, close, p_af0, p_af, p_max_af, tv, paf, af0, af,
                   max_af, brar>>

\* lines 82-127: one iteration of the loop
Step ==
    /\ pc = "loop"
    /\ row < Len(high)
    /\ IF row >= Len(low)
       THEN \* low.iat[row] is out of bounds
            /\ Fail("IndexError")
            /\ UNCHANGED <<af, falling, sar, ep, row, long, short, af_series,
                           reversal, hist>>
       ELSE LET high_ == Px(At(high, row))
                low_ == Px(At(low, row))
                cand == Candidate(sar, af, ep)
                reverse == ReverseCond(falling, high_, low_, cand)
                upd == NewExtreme(falling, high_, low_, ep)
                ep1 == IF upd THEN ExtremeOf(falling, high_, low_) ELSE ep
                af1 == IF upd THEN BumpAf(af, paf, max_af) ELSE af
                clamped == Clamp(falling, row, cand)
                sar2 == IF reverse THEN ReversalSar(tv, falling, row, ep1)
                        ELSE clamped
                af2 == IF reverse THEN ResetAf(af0) ELSE af1
                falling2 == IF reverse THEN Flip(falling) ELSE falling
                ep2 == IF reverse THEN Reseed(falling2, high_, low_) ELSE ep1
            IN  /\ sar' = sar2 /\ af' = af2 /\ falling' = falling2 /\ ep' = ep2
                /\ long' = LongAfter(falling2, row, sar2)
                /\ short' = ShortAfter(falling2, row, sar2)
                /\ af_series' = Put(af_series, row, af2)
                /\ reversal' = Put(reversal, row, IF reverse THEN 1 ELSE 0)
                /\ hist' = Append(hist, [cand |-> cand, ep_upd |-> ep1,
                                         ep |-> ep2, falling |-> falling2,
                                         sar |-> sar2, reverse |-> reverse])
                /\ row' = row + 1
                /\ UNCHANGED <<pc, outcome>>
    /\ UNCHANGED <<high, low, close, p_af0, p_af, p_max_af, tv, paf, af0,
                   max_af, brar>>

\* lines 129-159: offset 0 and no fill; the four columns are returned
Return ==
    /\ pc = "loop"
    /\ row >= Len(high)
    /\ pc' = "done"
    /\ outcome' = "DataFrame"
    /\ UNCHANGED <<high, low, close, p_af0, p_af, p_max_af, tv, paf, af0, af,
                   max_af, falling, sar, ep, row, long, short, af_series,
                   reversal, hist, brar>>

Next == Validate \/ Seed \/ Step \/ Return

(* ------------------------------ inputs --------------------------------- *)
Pairs(P) == {hl \in P \X P : hl[2] <= hl[1]}          \* <<high, low>>, low <= high
Bars(P, lo, hi) == UNION {[1..n -> Pairs(P)] : n \in lo..hi}
HighOf(b) == [i \in 1..Len(b) |-> b[i][1]]
LowOf(b) == [i \in 1..Len(b) |-> b[i][2]]
Series(P, lo, hi) == UNION {[1..n -> P] : n \in lo..hi}
Flat(n, c) == [i \in 1..n |-> c]

\* parameter sets <<af0, af, max_af>> of the recurrence runs
MainParams ==
    { <<None, None, None>>,              \* all defaults
      <<Some(5), Some(5), Some(10)>>,    \* the ceiling is reached in one step
      <<Some(25), None, None>> }         \* af0 above max_af

\* close is absent, or a series that starts at the first bar's low or high
Closes(b) == {None, Some(LowOf(b)), Some(HighOf(b))}

\* Spec: aligned bars with low <= high, at least two of them, over three
\* price levels
Prices == {1, 2, 3}

Init ==
    \E b \in Bars(Prices, 2, MaxLen), t \in BOOLEAN, ps \in MainParams :
    \E c \in Closes(b) :
        Start(HighOf(b), LowOf(b), c, ps[1], ps[2], ps[3], t)

Spec == Init /\ [][Next]_vars

\* SpecShape: high and low of any two lengths, default parameters
InitShape ==
    \E h \in Series(1..ShapeMax, 0, MaxLen), l \in Series(1..ShapeMax, 0, MaxLen) :
        Start(h, l, None, None, None, None, FALSE)

SpecShape == InitShape /\ [][Next]_vars

\* SpecParams: short aligned inputs, every combination of the parameters
Af0Args == {None, Some(-1), Some(5), Some(25)}
AfArgs == {None, Some(0), Some(5)}
MaxAfArgs == {None, Some(0), Some(10)}

InitParams ==
    \E b \in Bars(1..ShapeMax, 2, ParamLen) :
    \E a0 \in Af0Args, a \in AfArgs, m \in MaxAfArgs :
        Start(HighOf(b), LowOf(b), None, a0, a, m, FALSE)

SpecParams == InitParams /\ [][Next]_vars

\* SpecRising: strictly increasing highs and lows, af0 = 0.02, max_af = 0.2,
\* no close; the highs may lie far above the lows
Increasing(P, n) == {x \in [1..n -> P] : \A i \in 1..(n - 1) : x[i] < x[i + 1]}
LowPrices == 1..MaxLen
HighPrices == 1..(MaxLen + 2) \cup {WideGap + p : p \in LowPrices}

InitRising ==
    \E n \in 3..MaxLen :
    \E l \in Increasing(LowPrices, n), h \in Increasing(HighPrices, n), t \in BOOLEAN :
        /\ \A i \in 1..n : l[i] <= h[i]
        /\ Start(h, l, None, Some(1), None, Some(10), t)

SpecRising == InitRising /\ [][Next]_vars

(* ------------------------ auxiliary definitions ------------------------ *)
H(i) == hist[i + 1]                       \* what step i recorded (0 and 1: the seed)
Computed == 2..(Len(hist) - 1)            \* the positions the loop has filled
Running == pc \in {"loop", "done"} /\ Len(hist) >= 2
Returned == pc = "done" /\ outcome = "DataFrame"
Validated == pc \in {"seed", "loop"} \/ outcome \in {"DataFrame", "IndexError", "ValueError"}
Flipped(i) == H(i).falling # H(i - 1).falling

\* the arithmetic of one step is exact on the scaled grid
ExactScale == (pc = "loop" /\ row < Len(high)) => (ep - sar) % AfDen = 0

(* ------------------------------- claims -------------------------------- *)
\* C1: at every computed position i >= 2 exactly one of long[i], short[i] is
\* defined: short[i] when the direction after step i is falling, long[i] when
\* it is rising, and the defined one equals the sar committed at step i.
C1_OneStop ==
    Running =>
        \A i \in Computed :
            IF H(i).falling
            THEN At(short, i) = Some(H(i).sar) /\ At(long, i) = None
            ELSE At(long, i) = Some(H(i).sar) /\ At(short, i) = None

\* a returned run that wrote a short stop at one position and a long stop at another
C1_Witness ==
    /\ Returned
    /\ \E i, j \in Computed : At(short, i) # None /\ At(long, j) # None

\* C2: in every run that returns a result, af0 <= af[i] <= max_af at every
\* position i, the seed positions 0 and 1 included.
C2_AfBounded ==
    Returned =>
        \A i \in 0..(Len(af_series) - 1) :
            af0 <= At(af_series, i) /\ At(af_series, i) <= max_af

\* C3: reversal[i] is 0 or 1 at every position, and reversal[i] = 1 implies
\* af[i] = af0 and a direction after step i opposite to the one after step i-1.
C3_Reversal ==
    Running =>
        /\ \A i \in 0..(Len(reversal) - 1) : At(reversal, i) \in {0, 1}
        /\ \A i \in Computed :
               At(reversal, i) = 1 => At(af_series, i) = af0 /\ Flipped(i)

\* a returned run with a reversal after the acceleration factor had grown
C3_Witness ==
    /\ Returned
    /\ \E i \in Computed :
           /\ At(reversal, i) = 1
           /\ i >= 3 /\ At(af_series, i - 1) > af0

\* C4: the stop is never on the wrong side of the current bar: a defined
\* long[i] is at most low[i] and a defined short[i] is at least high[i], at
\* every computed position i >= 2, with or without close and tv.
C4_StopSide ==
    Running =>
        \A i \in Computed :
            /\ At(long, i) # None => Val(At(long, i)) <= Px(At(low, i))
            /\ At(short, i) # None => Val(At(short, i)) >= Px(At(high, i))

\* a returned run seeded from close, with tv, that reversed and holds both kinds of stop
C4_Witness ==
    /\ Returned /\ tv /\ close # None
    /\ \E i, j \in Computed :
           At(long, i) # None /\ At(short, j) # None /\ At(reversal, j) = 1

\* the history agrees with the state of the run
HistFaithful ==
    Running =>
        /\ Len(hist) = Min2(Len(high), Max2(row, 2))
        /\ H(Len(hist) - 1).sar = sar /\ H(Len(hist) - 1).ep = ep
        /\ H(Len(hist) - 1).falling = falling
        /\ At(af_series, Len(hist) - 1) = af

\* C5: psar rejects the input before the recurrence starts, producing no
\* output, whenever high and low differ in length, are empty, or hold fewer
\* than 2 points.
BadShape == Len(high) # Len(low) \/ Len(high) < 2
C5_RejectsShape ==
    (pc # "start" /\ BadShape) =>
        /\ pc = "done" /\ outcome = "None"
        /\ hist = <<>> /\ long = <<>> /\ short = <<>>

\* C6: psar fails with InvalidParameter before the recurrence starts whenever
\* af0, af or max_af is supplied and not positive, or af0 > max_af.
NonPositive(o) == ~IsNone(o) /\ Val(o) <= 0
BadParams ==
    \/ NonPositive(p_af0) \/ NonPositive(p_af) \/ NonPositive(p_max_af)
    \/ /\ ~IsNone(p_af0)
       /\ Val(p_af0) > (IF IsNone(p_max_af) THEN DefaultMaxAf ELSE Val(p_max_af))
C6_RejectsParams ==
    (pc # "start" /\ BadParams) =>
        /\ pc = "done" /\ outcome = "InvalidParameter"
        /\ hist = <<>>

StepArg == IF IsNone(p_af) THEN DefaultAf ELSE Val(p_af)
C8_NeverReverses ==
    Running =>
        \A i \in Computed :
            /\ At(reversal, i) = 0
            /\ At(long, i) # None
            /\ i >= 3 => Val(At(long, i)) > Val(At(long, i - 1))

\* C8 amended: on such inputs the run starts rising; up to the first
\* reversal long[i] is defined and strictly increasing; and no reversal
\* occurs at all when every bar's low is at least the previous bar's high.
NoReversalUpTo(i) == \A j \in 2..i : At(reversal, j) = 0
SteppingUp == \A j \in 1..(Len(high) - 1) : At(low, j) >= At(high, j - 1)
C8_RisingUntilReversal ==
    Running =>
        /\ ~H(0).falling
        /\ \A i \in Computed :
               NoReversalUpTo(i) =>
                   /\ At(long, i) # None
                   /\ i >= 3 => Val(At(long, i)) > Val(At(long, i - 1))
        /\ SteppingUp => \A i \in Computed : At(reversal, i) = 0

\* a returned run of four or more rising bars without reversal in which some
\* bar's low lies below the previous bar's high
C8_Witness ==
    /\ Returned /\ Len(high) >= 4 /\ ~SteppingUp
    /\ NoReversalUpTo(Len(high) - 1)
    /\ \A i \in 3..(Len(high) - 1) : Val(At(long, i)) > Val(At(long, i - 1))

\* C9: the direction after step i differs from the direction after step i-1
\* exactly when the reversal condition holds against the candidate
\* sar + af * (ep - sar) before clamping, and after a flip ep is the current
\* bar's low if the new direction is falling, its high if it is rising.
CandidateAt(i) ==
    H(i - 1).sar + ((H(i - 1).ep - H(i - 1).sar) \div AfDen) * At(af_series, i - 1)
CondAt(i, level) ==
    IF H(i - 1).falling THEN Px(At(high, i)) > level ELSE Px(At(low, i)) < level
C9_FlipIffCondition ==
    Running =>
        \A i \in Computed :
            /\ Flipped(i) <=> CondAt(i, CandidateAt(i))
            /\ Flipped(i) =>
                   H(i).ep = IF H(i).falling THEN Px(At(low, i)) ELSE Px(At(high, i))

\* a flip at a step where the test against the clamped candidate would not hold
ClampedAt(i) ==
    IF H(i - 1).falling
    THEN Max3(Px(At(high, i - 1)), Px(At(high, i - 2)), CandidateAt(i))
    ELSE Min3(Px(At(low, i - 1)), Px(At(low, i - 2)), CandidateAt(i))
C9_Witness ==
    /\ Running
    /\ \E i \in Computed : Flipped(i) /\ ~CondAt(i, ClampedAt(i))

\* C10: on a step that signals a reversal the committed stop is, without tv,
\* ep after this step's extreme-point update; with tv, min(low[i-1],
\* low[i-2], ep) on a flip from falling to rising and max(high[i-1],
\* high[i-2], ep) on a flip from rising to falling; it is written to the
\* column of the new direction.
EpUpdatedAt(i) ==
    IF H(i - 1).falling
    THEN Min2(H(i - 1).ep, Px(At(low, i)))
    ELSE Max2(H(i - 1).ep, Px(At(high, i)))
ReversalStopAt(i) ==
    IF ~tv THEN EpUpdatedAt(i)
    ELSE IF H(i - 1).falling
         THEN Min3(Px(At(low, i - 1)), Px(At(low, i - 2)), EpUpdatedAt(i))
         ELSE Max3(Px(At(high, i - 1)), Px(At(high, i - 2)), EpUpdatedAt(i))
C10_ReversalStop ==
    Running =>
        \A i \in Computed :
            At(reversal, i) = 1 =>
                /\ H(i).sar = ReversalStopAt(i)
                /\ IF H(i - 1).falling
                   THEN At(long, i) = Some(ReversalStopAt(i)) /\ At(short, i) = None
                   ELSE At(short, i) = Some(ReversalStopAt(i)) /\ At(long, i) = None

\* a returned tv run with a reversal whose stop differs from ep
C10_Witness ==
    /\ Returned /\ tv
    /\ \E i \in Computed :
           /\ At(reversal, i) = 1 /\ ReversalStopAt(i) # EpUpdatedAt(i)
           /\ At(short, i) = Some(ReversalStopAt(i))

\* C11 as stated: the initial direction is falling iff dn > up and dn > 0
\* (up = high[1]-high[0], dn = low[0]-low[1]); the seed state is sar =
\* high[0], ep = low[0] when falling and sar = low[0], ep = high[0] when
\* rising; positions 0 and 1 of the outputs are seed values (long and short
\* missing, af = af0, reversal = 0).
UpDelta == At(high, 1) - At(high, 0)
DnDelta == At(low, 0) - At(low, 1)
FallingFirst == DnDelta > UpDelta /\ DnDelta > 0
JustSeeded == pc = "loop" /\ row = 2
SeedPositions ==
    \A i \in 0..1 :
        /\ At(long, i) = None /\ At(short, i) = None
        /\ At(af_series, i) = af0 /\ At(reversal, i) = 0
C11_SeedAsStated ==
    /\ JustSeeded =>
           /\ falling = FallingFirst
           /\ sar = Px(IF FallingFirst THEN At(high, 0) ELSE At(low, 0))
           /\ ep = Px(IF FallingFirst THEN At(low, 0) ELSE At(high, 0))
    /\ Running => SeedPositions

\* C11 amended: as stated when no close series is supplied; when close is
\* supplied the seed is sar = close[0] in either direction (ep unchanged).
C11_SeedAsCoded ==
    /\ JustSeeded =>
           /\ falling = FallingFirst
           /\ sar = IF ~IsNone(close) THEN Px(At(Val(close), 0))
                    ELSE Px(IF FallingFirst THEN At(high, 0) ELSE At(low, 0))
           /\ ep = Px(IF FallingFirst THEN At(low, 0) ELSE At(high, 0))
    /\ Running => SeedPositions

\* equal positive deltas (high 2 -> 3, low 2 -> 1) without close: seeded
\* rising with sar = low[0], ep = high[0]
C11_Witness ==
    /\ JustSeeded /\ IsNone(close)
    /\ UpDelta = DnDelta /\ DnDelta > 0
    /\ ~falling /\ sar = Px(At(low, 0)) /\ ep = Px(At(high, 0))

\* C12: after every step i >= 2, ep is the most favorable price since the
\* last reversal (or since bar 0 if there was none): in a rising trend the
\* maximum of high[j], in a falling trend the minimum of low[j], over the
\* bars j from the bar of the last reversal (or bar 0) through i.
RECURSIVE MaxHigh(_, _)
MaxHigh(a, b) == IF a = b THEN At(high, a) ELSE Max2(At(high, b), MaxHigh(a, b - 1))
RECURSIVE MinLow(_, _)
MinLow(a, b) == IF a = b THEN At(low, a) ELSE Min2(At(low, b), MinLow(a, b - 1))
RECURSIVE LastReversal(_)
LastReversal(i) ==
    IF i < 2 THEN 0 ELSE IF At(reversal, i) = 1 THEN i ELSE LastReversal(i - 1)
C12_ExtremeSinceReversal ==
    Running =>
        \A i \in Computed :
            H(i).ep = IF H(i).falling
                      THEN Px(MinLow(LastReversal(i), i))
                      ELSE Px(MaxHigh(LastReversal(i), i))

\* what the loop keeps instead: before the first reversal bar 1 is left out
SinceStart(i) == IF LastReversal(i) = 0 THEN {0} \cup (2..i) ELSE LastReversal(i)..i
EpSkipsBarOne ==
    Running =>
        \A i \in Computed :
            /\ \E j \in SinceStart(i) :
                   H(i).ep = Px(IF H(i).falling THEN At(low, j) ELSE At(high, j))
            /\ \A j \in SinceStart(i) :
                   IF H(i).falling THEN H(i).ep <= Px(At(low, j))
                   ELSE H(i).ep >= Px(At(high, j))

(* -------------------------------- brar --------------------------------- *)
\* A value of a brar series is None (NaN) or Some(v).  A value of AR or BR
\* is the quotient num / den, held as the pair <<num, den>>.
DefaultLength == 26      \* line 37
DefaultScalar == 100     \* line 38
DefaultDrift == 1        \* get_drift(None)

Lift(x) == [i \in 1..Len(x) |-> Some(x[i])]

\* Series.shift(k): position i takes the value of position i - k
shift(x, k) ==
    [i \in 1..Len(x) |-> IF i - k \in 1..Len(x) THEN x[i - k] ELSE None]

\* verify_series(series, length): the series when it has at least `length`
\* points, else None
verify_series(series, length) ==
    IF Len(series) >= length THEN Some(series) ELSE None

\* non_zero_range(a, b): a - b, position by position
non_zero_range(a, b) ==
    [i \in 1..Len(a) |->
        IF IsNone(a[i]) \/ IsNone(b[i]) THEN None ELSE Some(Val(a[i]) - Val(b[i]))]

\* lines 55-56: x[x < 0] = 0
ZeroNegative(x) ==
    [i \in 1..Len(x) |-> IF ~IsNone(x[i]) /\ Val(x[i]) < 0 THEN Some(0) ELSE x[i]]

\* x.rolling(n).sum(): the sum of the last n values, NaN unless all n are there
RECURSIVE WindowSum(_, _, _)
WindowSum(x, i, n) == IF n = 0 THEN 0 ELSE Val(x[i]) + WindowSum(x, i - 1, n - 1)
rolling_sum(x, n) ==
    [i \in 1..Len(x) |->
        IF i >= n /\ \A j \in (i - n + 1)..i : ~IsNone(x[j])
        THEN Some(WindowSum(x, i, n)) ELSE None]

\* lines 58-59 and 61-62: scalar * num / den; 0 / 0 is NaN, and a nonzero
\* numerator over 0 is an infinity, held as the pair it comes from
Quotient(scalar, num, den) ==
    [i \in 1..Len(num) |->
        IF IsNone(num[i]) \/ IsNone(den[i]) THEN None
        ELSE IF Val(num[i]) = 0 /\ Val(den[i]) = 0 THEN None
        ELSE Some(<<scalar * Val(num[i]), Val(den[i])>>)]

\* line 66: ar = ar.shift(offset)
ArAfterOffset(ar_, offset_) == shift(ar_, offset_)

\* line 67: br = ar.shift(offset), ar_ being the AR that line 66 has shifted
BrAfterOffset(ar_, br_, offset_) == shift(ar_, offset_)

BrarStart(o, h, l, c, len, off) ==
    /\ brar = [pc |-> "start", outcome |-> "", open |-> o, high |-> h, low |-> l,
               close |-> c, p_length |-> len, offset |-> off, length |-> 0,
               ar |-> <<>>, br |-> <<>>, ar0 |-> <<>>, br0 |-> <<>>]
    /\ high = <<>> /\ low = <<>> /\ close = None
    /\ p_af0 = None /\ p_af = None /\ p_max_af = None /\ tv = FALSE
    /\ pc = "idle" /\ outcome = ""
    /\ paf = 0 /\ af0 = 0 /\ af = 0 /\ max_af = 0
    /\ falling = FALSE /\ sar = 0 /\ ep = 0 /\ row = 0
    /\ long = <<>> /\ short = <<>> /\ af_series = <<>> /\ reversal = <<>>
    /\ hist = <<>>

PsarIdle ==
    UNCHANGED <<high, low, close, p_af0, p_af, p_max_af, tv, pc, outcome, paf,
                af0, af, max_af, falling, sar, ep, row, long, short, af_series,
                reversal, hist>>

\* lines 36-49: the length and the four series are validated
BrarValidate ==
    /\ brar.pc = "start"
    /\ LET length == IF ~IsNone(brar.p_length) /\ Val(brar.p_length) > 0
                     THEN Val(brar.p_length) ELSE DefaultLength
       IN  IF \E x \in {brar.open, brar.high, brar.low, brar.close} :
                  IsNone(verify_series(x, length))
           THEN brar' = [brar EXCEPT !.pc = "done", !.outcome = "None",
                                     !.length = length]
           ELSE brar' = [brar EXCEPT !.pc = "calculate", !.length = length]
    /\ PsarIdle

\* lines 39-40 and 51-62: AR and BR
BrarCalculate ==
    /\ brar.pc = "calculate"
    /\ LET open_ == Lift(brar.open)
           high_ == Lift(brar.high)
           low_ == Lift(brar.low)
           close_ == Lift(brar.close)
           high_open_range == non_zero_range(high_, open_)
           open_low_range == non_zero_range(open_, low_)
           hcy == ZeroNegative(non_zero_range(high_, shift(close_, DefaultDrift)))
           cyl == ZeroNegative(non_zero_range(shift(close_, DefaultDrift), low_))
           ar_ == Quotient(DefaultScalar, rolling_sum(high_open_range, brar.length),
                           rolling_sum(open_low_range, brar.length))
           br_ == Quotient(DefaultScalar, rolling_sum(hcy, brar.length),
                           rolling_sum(cyl, brar.length))
       IN  brar' = [brar EXCEPT !.pc = "offset", !.ar = ar_, !.br = br_,
                                !.ar0 = ar_, !.br0 = br_]
    /\ PsarIdle

\* lines 64-67: the offset
BrarOffset ==
    /\ brar.pc = "offset"
    /\ IF brar.offset # 0
       THEN LET ar_ == ArAfterOffset(brar.ar, brar.offset)
                br_ == BrAfterOffset(ar_, brar.br, brar.offset)
            IN  brar' = [brar EXCEPT !.pc = "return", !.ar = ar_, !.br = br_]
       ELSE brar' = [brar EXCEPT !.pc = "return"]
    /\ PsarIdle

\* lines 69-87: no fill; the two columns are returned
BrarReturn ==
    /\ brar.pc = "return"
    /\ brar' = [brar EXCEPT !.pc = "done", !.outcome = "DataFrame"]
    /\ PsarIdle

NextBrar == BrarValidate \/ BrarCalculate \/ BrarOffset \/ BrarReturn

\* SpecBrar: aligned open/high/low/close bars with low <= open, close <= high
Ohlc(P) == {b \in P \X P \X P \X P :
                b[3] <= b[1] /\ b[1] <= b[2] /\ b[3] <= b[4] /\ b[4] <= b[2]}
OhlcBars(P, lo, hi) == UNION {[1..n -> Ohlc(P)] : n \in lo..hi}
Column(b, k) == [i \in 1..Len(b) |-> b[i][k]]
LengthArgs == {None, Some(1), Some(2)}
OffsetArgs == {-1, 0, 1, 2}

InitBrar ==
    \E b \in OhlcBars(1..ShapeMax, 0, BrarLen), len \in LengthArgs, off \in OffsetArgs :
        BrarStart(Column(b, 1), Column(b, 2), Column(b, 3), Column(b, 4), len, off)

SpecBrar == InitBrar /\ [][NextBrar]_vars

\* C13: a nonzero offset k shifts each output independently: the returned AR
\* at position i is the un-offset AR at i - k and the returned BR at position
\* i is the un-offset BR at i - k (missing where i - k is out of range).
ShiftedBy(x, k, i) == IF i - k \in 0..(Len(x) - 1) THEN At(x, i - k) ELSE None
C13_IndependentShift ==
    (brar.pc = "done" /\ brar.outcome = "DataFrame" /\ brar.offset # 0) =>
        \A i \in 0..(Len(brar.ar) - 1) :
            /\ At(brar.ar, i) = ShiftedBy(brar.ar0, brar.offset, i)
            /\ At(brar.br, i) = ShiftedBy(brar.br0, brar.offset, i)

\* the AR half of C13 alone, which the code keeps
ArShifted ==
    (brar.pc = "done" /\ brar.outcome = "DataFrame" /\ brar.offset # 0) =>
        \A i \in 0..(Len(brar.ar) - 1) :
            At(brar.ar, i) = ShiftedBy(brar.ar0, brar.offset, i)

====
